---- MODULE Spec2Model ----
(***************************************************************************)
(* Model of the tile acquisition and stitching engine of src/imagen.py     *)
(* (class Imagen): the per-tile fetch with cache, retry and backoff, the   *)
(* bounded-concurrency worker pool of _stitch_async, and the synchronous   *)
(* entry points getTiles and getMegaStitchedTiles.                         *)
(*                                                                         *)
(* Every action is one run of a coroutine between two suspension points    *)
(* (await): asyncio runs such a stretch without interleaving.              *)
(***************************************************************************)
EXTENDS Integers, Sequences, FiniteSets, TLC

\* ------------------------------------------------------------- bounds
MaxConcurrency == 2   \* Imagen(concurrency=N), N in 1..MaxConcurrency
MaxCalls == 3         \* successive getTiles calls on one Imagen object
MaxZoom == 3          \* zoom levels 1 .. MaxZoom of the tile pyramid
MaxRadius == 2        \* radius 0 .. MaxRadius of a fetch plan
MaxCloses == 3        \* close() calls on one Imagen object
MaxFiles == 2         \* tiles fetched into the cache before clear_cache()

\* ------------------------------------------------- program constants
MaxAttempts == 4        \* for attempt in range(4)
InitialBackoff == 500   \* backoff = 0.5 (seconds), here in milliseconds
BackoffFactor == 2      \* backoff *= 2
TileSize == 256         \* Image.new("RGB", (256, 256), ...)

\* ------------------------------------------------------------ values
\* The radius argument: a single tile, and the 3x3 grid with its 9 workers.
Radii == {0, 1}

Providers == {"esri", "google", "bing", "gibs", "mapbox"}

\* What the network answers to one GET:
\*   ok        status 200, image content type, body decodes
\*   junk      status 200, image content type, body does not decode
\*   status    a status other than 200
\*   ctype     status 200 with a content type that is no image
\*   transport httpx.HTTPError (timeout, connection failure)
Responses == {"ok", "junk", "status", "ctype", "transport"}
FailureKinds == <<"status", "ctype", "transport">>

Side(r) == 2 * r + 1
Total(r) == Side(r) * Side(r)

\* File contents. ver 0 is what an earlier run left; a response body carries
\* the call and the attempt that fetched it.
NoFile == [tile |-> -1, ver |-> 0, valid |-> FALSE]
EmptyFile(i) == [tile |-> i, ver |-> -1, valid |-> FALSE]
OldBytes(i) == [tile |-> i, ver |-> 0, valid |-> TRUE]
CorruptBytes(i) == [tile |-> i, ver |-> 0, valid |-> FALSE]
RespBytes(i, call, att, r) ==
    [tile |-> i, ver |-> (call - 1) * MaxAttempts + att + 1, valid |-> (r = "ok")]

Exists(f) == f.tile # -1

\* Images. Image.open(...).convert("RGB") of decodable bytes.
NoImage == [kind |-> "none", tile |-> -1, ver |-> 0, w |-> 0, h |-> 0]
Decode(b) == [kind |-> "tile", tile |-> b.tile, ver |-> b.ver, w |-> TileSize, h |-> TileSize]
Placeholder == [kind |-> "placeholder", tile |-> -1, ver |-> 0, w |-> TileSize, h |-> TileSize]

VARIABLES
    provider,     \* self.provider
    hasKey,       \* key is not None
    radius,       \* radius argument
    concurrency,  \* self.concurrency (read by _stitch_async only)
    force,        \* force argument of the current call
    op,           \* "mosaic" (getMegaStitchedTiles) or "single" (getTiles)
    order,        \* order in which the event loop first runs the tasks
    net,          \* net[i][k]: the network's answer to the k-th GET of tile i
    cache,        \* cache[i]: contents of the cache file of tile i
    pcMain,       \* position of the calling coroutine
    outcome,      \* what the call returned or raised
    calls,        \* number of calls made on this object
    pc,           \* pc[i]: position of the fetch of tile i
    attempt,      \* attempt[i]: loop variable of the retry loop
    backoff,      \* backoff[i]: local variable backoff (ms)
    slept,        \* slept[i]: the asyncio.sleep durations so far (ms)
    reqs,         \* reqs[i]: GET requests issued for tile i in this call
    results,      \* results[idx] of _stitch_async
    caught,       \* caught[i]: the exception worker i caught
    sem,          \* value of the semaphore
    waiters,      \* the semaphore's FIFO of waiting tasks
    started,      \* number of tasks that have run their first step
    client,       \* self._client is not None
    cacheAtCall,  \* history: the cache files when the current call began
    evicted,      \* history: evicted[i], times the file of tile i was unlinked
    mode,         \* mode argument, from the first time the code reads it
    plan,         \* the fetch plan of _stitch_async: center, radius, coords
    rows,         \* rows of _stitch_async: the strips, or the paths of their files
    rowFiles,     \* the row_{r}.png files of the cache directory
    quad,         \* a call of tile_xy_to_quadkey: its arguments and its result
    jobs,         \* disk-mode stitch jobs of other threads or processes
    session,      \* the life of self._client under fetch and close calls
    tree,         \* the directories and tile files under self.cache_dir
    clearing      \* a call of clear_cache: its position and its iterators

\* The state of the units that are checked on their own.
units == <<quad, jobs, session, tree, clearing>>

vars == <<provider, hasKey, radius, concurrency, force, op, order, net, cache,
          pcMain, outcome, calls, pc, attempt, backoff, slept, reqs, results,
          caught, sem, waiters, started, client, cacheAtCall, evicted, mode,
          plan, rows, rowFiles, units>>

config == <<provider, hasKey, radius, concurrency, op, order, net, units>>

\* What the assembly of a mosaic works on.
stitch == <<mode, plan, rows, rowFiles>>

Idx == 0 .. (Total(radius) - 1)

\* ------------------------------------------------------- environment
\* The network is a script per tile: k failed answers, whose kinds rotate
\* from p (or are all the same, u), then `last` for every later request.
FailKind(p, u, a) == FailureKinds[((IF u THEN p ELSE p + a) % 3) + 1]
Script(k, p, u, last) ==
    [a \in 1 .. MaxAttempts |-> IF a <= k THEN FailKind(p, u, a) ELSE last]
JunkThenOk == [a \in 1 .. MaxAttempts |-> IF a = 1 THEN "junk" ELSE "ok"]

SingleScripts ==
    {Script(k, p, u, last) : k \in 0 .. MaxAttempts, p \in 0 .. 2,
                             u \in BOOLEAN, last \in {"ok", "junk"}}
    \cup {JunkThenOk}

\* Grids: the tiles of F fail on every attempt; the others answer at once
\* (clean) or, by index, after an undecodable body or after some failures.
FailSets(n) == {{}, 0 .. (n - 1), {0}, {i \in 0 .. (n - 1) : i % 2 = 1}}
Styles == {"clean", "rough"}
TileScript(i, F, style) ==
    IF i \in F THEN Script(MaxAttempts, i, i % 2 = 0, "ok")
    ELSE IF style = "clean" THEN Script(0, 0, FALSE, "ok")
    ELSE IF i % 3 = 0 THEN JunkThenOk
    ELSE Script(i % MaxAttempts, i, FALSE, "ok")

\* What earlier runs left in the cache directory.
CacheKinds == {"cold", "warm", "mixed"}
CacheFile(kind, i) ==
    IF kind = "cold" THEN NoFile
    ELSE IF kind = "warm" THEN OldBytes(i)
    ELSE IF i % 3 = 0 THEN CorruptBytes(i)
    ELSE IF i % 3 = 1 THEN OldBytes(i)
    ELSE NoFile

\* A forced mosaic never reads the files it finds: one mixed population of
\* absent, good and corrupt files stands for all of them.
CacheChoices(o, f) == IF o = "mosaic" /\ f THEN {"mixed"} ELSE CacheKinds

\* as_completed wraps the coroutines of a set: the tasks first run in an
\* order the program does not choose.
Orders(n) == {[k \in 1 .. n |-> k - 1], [k \in 1 .. n |-> n - k]}

\* esri takes no key; the others are called with or without one.
KeyChoices(p) == IF p = "esri" THEN {FALSE} ELSE BOOLEAN

NoOutcome == [kind |-> "none", exc |-> "none", img |-> NoImage, rows |-> <<>>, w |-> 0, h |-> 0]

\* The tiles of zoom z: x, y in 0 .. 2^z - 1
TileRange(z) == 0 .. (2 ^ z - 1)

\* `for dx in range(-radius, radius + 1): coords.append((center.x + dx,
\* center.y + dy, zoom))`, from dx on
RECURSIVE CoordsRow(_, _, _, _)
CoordsRow(c, r, dy, dx) ==
    IF dx > r THEN <<>>
    ELSE <<[x |-> c.x + dx, y |-> c.y + dy, z |-> c.z]>> \o CoordsRow(c, r, dy, dx + 1)

\* `for dy in range(-radius, radius + 1)`, from dy on
RECURSIVE CoordsFrom(_, _, _)
CoordsFrom(c, r, dy) ==
    IF dy > r THEN <<>> ELSE CoordsRow(c, r, dy, -r) \o CoordsFrom(c, r, dy + 1)

\* coords of _stitch_async for center tile c and radius r
Coords(c, r) == CoordsFrom(c, r, -r)

\* The plan of _stitch_async once `total = len(coords)` is reached.
BuildPlan(c, r) == [center |-> c, radius |-> r, coords |-> Coords(c, r), built |-> TRUE]

\* The mosaic requests of the engine ask for one place: zoom 2, tile (1, 2).
MosaicCenter == [x |-> 1, y |-> 2, z |-> 2]

\* mode argument of getMegaStitchedTiles. Nothing reads it before "Build
\* rows": the caller's choice enters the state there.
Modes == {"memory", "disk"}
NoMode == "unread"

\* `self.cache_dir / f"row_{r}.png"`: the name is made of the row number
\* alone, whatever job builds the row.
RowPath(job, r) == r

JobIds == {1, 2}
RowPaths == {RowPath(j, r) : j \in JobIds, r \in 0 .. (Side(1) - 1)}

\* Row files: the PNG encoding of a strip, and who wrote it (history).
NoRowFile == [job |-> 0, data |-> <<>>, w |-> 0, h |-> 0]
RowExists(f) == f.job # 0

\* row_img.save(row_path): PNG of an RGB image
SavePng(strip, job) == [job |-> job, data |-> strip.cells, w |-> strip.w, h |-> strip.h]

\* No call of tile_xy_to_quadkey is under way.
NoQuad == [x |-> 0, y |-> 0, z |-> 0, key |-> <<>>, called |-> FALSE]

\* `coords = []`, before center is computed
NoPlan == [center |-> [x |-> 0, y |-> 0, z |-> 0], radius |-> 0, coords |-> <<>>,
           built |-> FALSE]

\* No job: nothing of a stitch job exists.
NoJob == [radius |-> 0, results |-> <<>>, pc |-> "none", rows |-> <<>>, opened |-> <<>>,
          unlinked |-> 0, outcome |-> NoOutcome, foreign |-> {}]

\* No call has been made on the object.
NoSession == [state |-> "none", log |-> <<>>, fetched |-> "none", closed |-> "none",
              acloses |-> 0]

\* The cache root as mkdir leaves it, and no clear_cache call.
EmptyTree == [dirs |-> {}, files |-> {}]
NoClearing == [pc |-> "idle", children |-> {}, child |-> <<>>, pending |-> {},
               exc |-> "none"]

Init ==
    /\ quad = NoQuad
    /\ tree = EmptyTree
    /\ clearing = NoClearing
    /\ session = NoSession
    /\ jobs = [j \in JobIds |-> NoJob]
    /\ plan = NoPlan
    /\ rows = <<>>
    /\ rowFiles = [p \in RowPaths |-> NoRowFile]
    /\ provider \in Providers
    /\ hasKey \in KeyChoices(provider)
    /\ force \in BOOLEAN
    /\ op \in {"mosaic", "single"}
    /\ concurrency \in (IF op = "mosaic" THEN 1 .. MaxConcurrency ELSE {1})
    /\ mode = NoMode
    /\ radius \in (IF op = "mosaic" THEN Radii ELSE {0})
    /\ order \in Orders(Total(radius))
    /\ IF op = "mosaic"
          THEN \E F \in FailSets(Total(radius)), st \in Styles :
                   net = [i \in Idx |-> TileScript(i, F, st)]
          ELSE \E s \in SingleScripts : net = [i \in Idx |-> s]
    /\ \E ck \in CacheChoices(op, force) : cache = [i \in Idx |-> CacheFile(ck, i)]
    /\ pcMain = "idle"
    /\ outcome = NoOutcome
    /\ calls = 0
    /\ pc = [i \in Idx |-> "none"]
    /\ attempt = [i \in Idx |-> 0]
    /\ backoff = [i \in Idx |-> 0]
    /\ slept = [i \in Idx |-> <<>>]
    /\ reqs = [i \in Idx |-> 0]
    /\ results = [i \in Idx |-> NoImage]
    /\ caught = [i \in Idx |-> "none"]
    /\ sem = 0
    /\ waiters = <<>>
    /\ started = 0
    /\ client = FALSE
    /\ cacheAtCall = cache
    /\ evicted = [i \in Idx |-> 0]

\* ------------------------------------------------- _fetch_tile_async
\* Mutant of UseCache: the cache is consulted even under force.
UseCacheDespiteForce(i) == Exists(cache[i])

\* `if cache_file.exists() and not force`
UseCache(i) == Exists(cache[i]) /\ ~force

\* Mutant of Evict: the corrupt file is left in place.
EvictNothing(i) == cache[i]

\* The cache file after a failed decode: cache_file.unlink()
Evict(i) == NoFile

\* The URL builders raise ValueError: google and bing without a key, and any
\* provider that is none of esri, google, bing.
UrlError ==
    \/ provider \in {"google", "bing"} /\ ~hasKey
    \/ provider \notin {"esri", "google", "bing"}

\* The stretch from the call of _fetch_tile_async to its first await:
\* it returns the cached image, raises, or issues the first GET.
FetchEntry(i) ==
    IF provider = "gibs"
    THEN [kind |-> "raise", exc |-> "RuntimeError", img |-> NoImage, file |-> cache[i],
          unlinked |-> FALSE]
    ELSE IF UseCache(i) /\ cache[i].valid
    THEN [kind |-> "return", exc |-> "none", img |-> Decode(cache[i]), file |-> cache[i],
          unlinked |-> FALSE]
    ELSE LET file == IF UseCache(i) THEN Evict(i) ELSE cache[i]
         IN  IF UrlError
             THEN [kind |-> "raise", exc |-> "ValueError", img |-> NoImage, file |-> file,
                   unlinked |-> UseCache(i)]
             ELSE [kind |-> "request", exc |-> "none", img |-> NoImage, file |-> file,
                   unlinked |-> UseCache(i)]

\* `if attempt == 3: raise RuntimeError(...)`
IsLastAttempt(a) == a = MaxAttempts - 1

\* Mutant of NextBackoff: a delay that grows by a fixed step.
NextBackoffLinear(b) == b + InitialBackoff

\* `backoff *= 2`
NextBackoff(b) == b * BackoffFactor

\* ------------------------------------------------------------ worker
\* Mutant of CanAcquire: a limiter that never makes a task wait.
CanAcquireAlways == TRUE

\* Semaphore.locked() is false: acquire() takes a permit without waiting.
CanAcquire == sem > 0 /\ waiters = <<>>

\* results[idx] = img, or the blank tile when the fetch raised
WorkerResult(img, exc) == IF exc = "none" THEN img ELSE Placeholder

\* Mutant of Wake: a release that wakes nobody.
WakeLost(w) == "waiting"

\* Semaphore.release() with tasks waiting: the first waiter's future is
\* resolved, so the event loop runs that task again.
Wake(w) == "woken"

\* The fetch of tile i goes on to its next await, holding what it holds.
Continue(i, next, semNow) ==
    /\ pc' = [pc EXCEPT ![i] = next]
    /\ sem' = semNow
    /\ UNCHANGED <<results, caught, waiters, pcMain, outcome>>

\* The fetch of tile i returned img (exc = "none") or raised exc. In a
\* mosaic the worker records the outcome and leaves `async with sem`: the
\* permit goes to the first waiter. In getTiles the caller gets it.
Finish(i, img, exc, semNow) ==
    IF op = "mosaic"
    THEN /\ results' = [results EXCEPT ![i] = WorkerResult(img, exc)]
         /\ caught' = [caught EXCEPT ![i] = exc]
         /\ IF waiters # <<>>
               THEN /\ pc' = [pc EXCEPT ![i] = "done", ![Head(waiters)] = Wake(Head(waiters))]
                    /\ waiters' = Tail(waiters)
                    /\ sem' = semNow
               ELSE /\ pc' = [pc EXCEPT ![i] = "done"]
                    /\ waiters' = waiters
                    /\ sem' = semNow + 1
         /\ UNCHANGED <<pcMain, outcome>>
    ELSE /\ pc' = [pc EXCEPT ![i] = "done"]
         /\ pcMain' = IF exc = "none" THEN "returned" ELSE "raised"
         /\ outcome' = [kind |-> IF exc = "none" THEN "image" ELSE "raise",
                        exc |-> exc, img |-> img, rows |-> <<>>,
                        w |-> img.w, h |-> img.h]
         /\ sem' = semNow
         /\ UNCHANGED <<results, caught, waiters>>

\* _fetch_tile_async up to its first await
Enter(i, semNow) ==
    LET e == FetchEntry(i)
    IN  /\ cache' = [cache EXCEPT ![i] = e.file]
        /\ evicted' = [evicted EXCEPT ![i] = IF e.unlinked THEN @ + 1 ELSE @]
        /\ IF e.kind = "request"
              THEN /\ client' = TRUE
                   /\ reqs' = [reqs EXCEPT ![i] = 1]
                   /\ backoff' = [backoff EXCEPT ![i] = InitialBackoff]
                   /\ Continue(i, "get", semNow)
              ELSE /\ UNCHANGED <<client, reqs, backoff>>
                   /\ Finish(i, e.img, e.exc, semNow)
        /\ UNCHANGED <<attempt, slept>>

\* ------------------------------------------------------- the actions
AllStarted == started = Total(radius)

\* Mutant of StitchRefused: _stitch_async without its provider check.
StitchNeverRefused == FALSE

\* `if self.provider == "gibs": raise RuntimeError(...)` of _stitch_async
StitchRefused == provider = "gibs"

\* getMegaStitchedTiles -> _stitch_async, to its first await: gibs is refused;
\* otherwise the semaphore is made and one worker per grid index is created.
StitchCall ==
    /\ op = "mosaic"
    /\ pcMain = "idle"
    /\ calls' = calls + 1
    /\ cacheAtCall' = cache
    /\ IF StitchRefused
          THEN /\ pcMain' = "raised"
               /\ outcome' = [NoOutcome EXCEPT !.kind = "raise", !.exc = "RuntimeError"]
               /\ UNCHANGED <<pc, sem, plan>>
          ELSE /\ pcMain' = "gather"
               /\ plan' = BuildPlan(MosaicCenter, radius)
               /\ sem' = concurrency
               /\ pc' = [i \in Idx |-> "new"]
               /\ UNCHANGED outcome
    /\ UNCHANGED <<config, mode, rows, rowFiles, force, cache, attempt, backoff, slept, reqs, results,
                   caught, waiters, started, client, evicted>>

\* First run of worker i: `async with sem`, then the fetch if a permit is free.
StartTask(i) ==
    /\ pcMain = "gather"
    /\ started < Total(radius)
    /\ i = order[started + 1]
    /\ pc[i] = "new"
    /\ started' = started + 1
    /\ IF CanAcquire
          THEN /\ Enter(i, sem - 1)
          ELSE /\ waiters' = Append(waiters, i)
               /\ pc' = [pc EXCEPT ![i] = "waiting"]
               /\ UNCHANGED <<sem, cache, client, reqs, backoff, attempt, slept,
                              results, caught, pcMain, outcome, evicted>>
    /\ UNCHANGED <<config, stitch, force, calls, cacheAtCall>>

\* Worker i was handed a permit by a release and runs again.
Resume(i) ==
    /\ pc[i] = "woken"
    /\ Enter(i, sem)
    /\ UNCHANGED <<config, stitch, force, calls, started, cacheAtCall>>

\* `resp = await self._client.get(...)` completes for tile i.
Respond(i) ==
    /\ pc[i] = "get"
    /\ op = "mosaic" => AllStarted
    /\ LET r == net[i][attempt[i] + 1]
       IN  IF r \in {"ok", "junk"}
           THEN \* aiofiles.open(cache_file, "wb") truncates the file
                /\ cache' = [cache EXCEPT ![i] = EmptyFile(i)]
                /\ slept' = slept
                /\ Continue(i, "write", sem)
           ELSE /\ cache' = cache
                /\ IF IsLastAttempt(attempt[i])
                      THEN /\ slept' = slept
                           /\ Finish(i, NoImage, "RuntimeError", sem)
                      ELSE /\ slept' = [slept EXCEPT ![i] = Append(@, backoff[i])]
                           /\ Continue(i, "sleep", sem)
    /\ UNCHANGED <<config, stitch, force, calls, attempt, backoff, reqs, started,
                   client, cacheAtCall, evicted>>

\* `await f.write(resp.content)`, then Image.open(BytesIO(resp.content)).
WriteCache(i) ==
    /\ pc[i] = "write"
    /\ LET b == RespBytes(i, calls, attempt[i], net[i][attempt[i] + 1])
       IN  /\ cache' = [cache EXCEPT ![i] = b]
           /\ IF b.valid
                 THEN Finish(i, Decode(b), "none", sem)
                 ELSE Finish(i, NoImage, "UnidentifiedImageError", sem)
    /\ UNCHANGED <<config, stitch, force, calls, attempt, backoff, slept, reqs, started,
                   client, cacheAtCall, evicted>>

\* `await asyncio.sleep(backoff)` ends: backoff doubles, the next GET is issued.
WakeUp(i) ==
    /\ pc[i] = "sleep"
    /\ backoff' = [backoff EXCEPT ![i] = NextBackoff(@)]
    /\ attempt' = [attempt EXCEPT ![i] = @ + 1]
    /\ reqs' = [reqs EXCEPT ![i] = @ + 1]
    /\ Continue(i, "get", sem)
    /\ UNCHANGED <<config, stitch, force, calls, cache, slept, started, client,
                   cacheAtCall, evicted>>

\* Mutant of GatherComplete: the loop is left on the first completed task.
GatherFirst(n) == n >= 1

\* `for f in as_completed(tasks): await f` ends once n tasks have completed
GatherComplete(n) == n = Total(radius)

Completed == {i \in Idx : pc[i] = "done"}

\* The main coroutine leaves the as_completed loop.
MainStep ==
    /\ pcMain = "gather"
    /\ AllStarted
    /\ Completed # {}
    /\ GatherComplete(Cardinality(Completed))
    /\ pcMain' = "assemble"
    /\ UNCHANGED <<config, stitch, force, cache, outcome, calls, pc, attempt, backoff,
                   slept, reqs, results, caught, sem, waiters, started, client,
                   cacheAtCall, evicted>>

RECURSIVE SumOf(_, _), MaxOf(_, _)
SumOf(s, f) == IF s = <<>> THEN 0 ELSE Head(s)[f] + SumOf(Tail(s), f)
MaxOf(s, f) ==
    IF s = <<>> THEN 0
    ELSE LET m == MaxOf(Tail(s), f) IN IF Head(s)[f] > m THEN Head(s)[f] ELSE m

\* _hstack: the images left to right; width the sum, height the maximum
Hstack(images) == [cells |-> images, w |-> SumOf(images, "w"), h |-> MaxOf(images, "h")]

\* _vstack: the strips top to bottom; width the maximum, height the sum
Vstack(strips) ==
    [NoOutcome EXCEPT !.kind = "mosaic", !.rows = strips,
                      !.w = MaxOf(strips, "w"), !.h = SumOf(strips, "h")]

\* Mutant of GridIndex: rows and columns exchanged.
GridIndexTransposed(r, c) == c * Side(radius) + r

\* `idx = r * side + c`
GridIndex(r, c) == r * Side(radius) + c

RowImages(r) == [c \in 1 .. Side(radius) |-> results[GridIndex(r - 1, c - 1)]]

\* `row_img = self._hstack(row_imgs)` of row r (r = 1 is the top row)
BuildRow(r) == Hstack(RowImages(r))

\* Disk mode, rows r .. side: each strip is saved under its row path, a
\* later save replacing what the path held.
RECURSIVE SaveRows(_, _, _)
SaveRows(files, r, job) ==
    IF r > Side(radius) THEN files
    ELSE SaveRows([files EXCEPT ![RowPath(job, r - 1)] = SavePng(BuildRow(r), job)],
                  r + 1, job)

\* "Build rows": rows holds the strips (memory) or the paths of their files
\* (disk). results[idx] of a missing index raises KeyError.
Assemble ==
    /\ pcMain = "assemble"
    /\ IF \E i \in Idx : results[i].kind = "none"
          THEN /\ pcMain' = "raised"
               /\ outcome' = [NoOutcome EXCEPT !.kind = "raise", !.exc = "KeyError"]
               /\ UNCHANGED <<mode, rows, rowFiles>>
          ELSE /\ pcMain' = "finalize"
               /\ outcome' = outcome
               /\ mode' \in Modes
               /\ IF mode' = "disk"
                     THEN /\ rows' = [r \in 1 .. Side(radius) |-> RowPath(calls, r - 1)]
                          /\ rowFiles' = SaveRows(rowFiles, 1, calls)
                     ELSE /\ rows' = [r \in 1 .. Side(radius) |-> BuildRow(r)]
                          /\ rowFiles' = rowFiles
    /\ UNCHANGED <<config, plan, force, cache, calls, pc, attempt, backoff, slept, reqs,
                   results, caught, sem, waiters, started, client, cacheAtCall,
                   evicted>>

\* Mutant of OpenPng: the strip comes back as a blank image of its size.
OpenPngBlank(f) == [cells |-> <<>>, w |-> f.w, h |-> f.h]

\* Image.open(p).convert("RGB") of a PNG written by save
OpenPng(f) == [cells |-> f.data, w |-> f.w, h |-> f.h]

\* Mutant of Unlink: the file is left where it is.
UnlinkNothing(f) == f

\* Path(p).unlink()
Unlink(f) == NoRowFile

\* `for p in rows: Path(p).unlink()` from the k-th path on; a path that is
\* not there raises, and the error is passed over.
RECURSIVE UnlinkRows(_, _, _)
UnlinkRows(files, paths, k) ==
    IF k > Len(paths) THEN files
    ELSE UnlinkRows([files EXCEPT ![paths[k]] = IF RowExists(@) THEN Unlink(@) ELSE @],
                    paths, k + 1)

\* "finalize": memory mode stacks the strips; disk mode opens every row
\* file (a missing one raises FileNotFoundError), stacks them, and deletes
\* the files.
Finalize ==
    /\ pcMain = "finalize"
    /\ IF mode = "memory"
          THEN /\ outcome' = Vstack(rows)
               /\ pcMain' = "returned"
               /\ rowFiles' = rowFiles
          ELSE IF \E k \in 1 .. Len(rows) : ~RowExists(rowFiles[rows[k]])
          THEN /\ outcome' = [NoOutcome EXCEPT !.kind = "raise", !.exc = "FileNotFoundError"]
               /\ pcMain' = "raised"
               /\ rowFiles' = rowFiles
          ELSE /\ outcome' = Vstack([k \in 1 .. Len(rows) |-> OpenPng(rowFiles[rows[k]])])
               /\ pcMain' = "returned"
               /\ rowFiles' = UnlinkRows(rowFiles, rows, 1)
    /\ UNCHANGED <<config, mode, plan, rows, force, cache, calls, pc, attempt, backoff,
                   slept, reqs, results, caught, sem, waiters, started, client, cacheAtCall,
                   evicted>>

\* _getGIBS_WMS: one blocking GET; anything but a 200 image raises.
WmsOutcome(r) ==
    IF r = "ok"
    THEN [NoOutcome EXCEPT !.kind = "image", !.w = 4 * TileSize, !.h = 4 * TileSize,
                           !.img = [kind |-> "wms", tile |-> 0, ver |-> calls + 1,
                                    w |-> 4 * TileSize, h |-> 4 * TileSize]]
    ELSE [NoOutcome EXCEPT !.kind = "raise",
                           !.exc = IF r = "transport" THEN "HTTPError"
                                   ELSE IF r = "junk" THEN "UnidentifiedImageError"
                                   ELSE "RuntimeError"]

\* getTiles: the WMS path for gibs, else _get_tile_sync -> _fetch_tile_async.
TileCall ==
    /\ op = "single"
    /\ pcMain = "idle"
    /\ pc[0] = "none"
    /\ calls' = calls + 1
    /\ cacheAtCall' = cache
    /\ IF provider = "gibs"
          THEN /\ outcome' = WmsOutcome(net[0][1])
               /\ pcMain' = IF net[0][1] = "ok" THEN "returned" ELSE "raised"
               /\ reqs' = [reqs EXCEPT ![0] = 1]
               /\ UNCHANGED <<cache, client, backoff, attempt, slept, pc, sem,
                              results, caught, waiters, evicted>>
          ELSE Enter(0, sem)
    /\ UNCHANGED <<config, stitch, force, started>>

\* The caller calls getTiles again on the same object.
NextCall ==
    /\ op = "single"
    /\ pcMain \in {"returned", "raised"}
    /\ calls < MaxCalls
    /\ pcMain' = "idle"
    /\ force' \in BOOLEAN
    /\ outcome' = NoOutcome
    /\ pc' = [i \in Idx |-> "none"]
    /\ attempt' = [i \in Idx |-> 0]
    /\ backoff' = [i \in Idx |-> 0]
    /\ slept' = [i \in Idx |-> <<>>]
    /\ reqs' = [i \in Idx |-> 0]
    /\ UNCHANGED <<config, stitch, cache, calls, results, caught, sem, waiters, started,
                   client, cacheAtCall, evicted>>

Next ==
    \/ StitchCall
    \/ TileCall
    \/ NextCall
    \/ MainStep
    \/ Assemble
    \/ Finalize
    \/ \E i \in Idx : StartTask(i)
    \/ \E i \in Idx : Resume(i)
    \/ \E i \in Idx : Respond(i)
    \/ \E i \in Idx : WriteCache(i)
    \/ \E i \in Idx : WakeUp(i)

Spec == Init /\ [][Next]_vars

\* The event loop runs every task that is ready, and every network request
\* completes, fails or times out (the client's timeout): a step that can be
\* taken is taken.
FairSpec == Spec /\ WF_vars(Next)

\* ------------------------------------------------------------- units
\* The Imagen object as its constructor leaves it, no call under way: the
\* state in which the units below are exercised on their own.
Constructed ==
    /\ provider = "esri" /\ hasKey = FALSE /\ concurrency = 1 /\ force = FALSE
    /\ op = "single" /\ radius = 0 /\ order = <<0>>
    /\ net = [i \in {0} |-> Script(0, 0, FALSE, "ok")]
    /\ cache = [i \in {0} |-> NoFile]
    /\ pcMain = "idle" /\ outcome = NoOutcome /\ calls = 0
    /\ pc = [i \in {0} |-> "none"]
    /\ attempt = [i \in {0} |-> 0]
    /\ backoff = [i \in {0} |-> 0]
    /\ slept = [i \in {0} |-> <<>>]
    /\ reqs = [i \in {0} |-> 0]
    /\ results = [i \in {0} |-> NoImage]
    /\ caught = [i \in {0} |-> "none"]
    /\ sem = 0 /\ waiters = <<>> /\ started = 0
    /\ cacheAtCall = cache
    /\ evicted = [i \in {0} |-> 0]
    /\ mode = NoMode /\ rows = <<>>

engine == <<provider, hasKey, radius, concurrency, force, op, order, net, cache,
            pcMain, outcome, calls, pc, attempt, backoff, slept, reqs, results,
            caught, sem, waiters, started, cacheAtCall, evicted, mode, rows>>

\* ---------------------------------------------------- tile_xy_to_quadkey
\* `1 << n`
ShiftLeft(a, n) == a * 2 ^ n

\* `a & b` on non-negative integers
RECURSIVE BitAnd(_, _)
BitAnd(a, b) ==
    IF a = 0 \/ b = 0 THEN 0
    ELSE (a % 2) * (b % 2) + 2 * BitAnd(a \div 2, b \div 2)

\* str(bit)
Str(bit) == <<"0", "1", "2", "3">>[bit + 1]

\* Mutant of QuadDigit: the weights of x and y exchanged.
QuadDigitSwapped(x, y, i) ==
    LET mask == ShiftLeft(1, i - 1)
    IN  (IF BitAnd(x, mask) # 0 THEN 2 ELSE 0) + (IF BitAnd(y, mask) # 0 THEN 1 ELSE 0)

\* One pass of the loop body: bit = 0; +1 if x & mask; +2 if y & mask
QuadDigit(x, y, i) ==
    LET mask == ShiftLeft(1, i - 1)
    IN  (IF BitAnd(x, mask) # 0 THEN 1 ELSE 0) + (IF BitAnd(y, mask) # 0 THEN 2 ELSE 0)

\* `for i in range(z, 0, -1): quadkey.append(str(bit))` from i down to 1
RECURSIVE QuadkeyFrom(_, _, _)
QuadkeyFrom(x, y, i) ==
    IF i <= 0 THEN <<>> ELSE <<Str(QuadDigit(x, y, i))>> \o QuadkeyFrom(x, y, i - 1)

\* The result is the sequence of the characters of "".join(quadkey).
tile_xy_to_quadkey(x, y, z) == QuadkeyFrom(x, y, z)

QuadkeyInit ==
    /\ Constructed
    /\ tree = EmptyTree
    /\ clearing = NoClearing
    /\ client = FALSE
    /\ session = NoSession
    /\ jobs = [j \in JobIds |-> NoJob]
    /\ plan = NoPlan
    /\ rowFiles = [p \in RowPaths |-> NoRowFile]
    /\ \E z \in 1 .. MaxZoom : \E x, y \in TileRange(z) :
           quad = [NoQuad EXCEPT !.x = x, !.y = y, !.z = z]

\* _bing_url calls tile_xy_to_quadkey(x, y, z)
QuadkeyCall ==
    /\ ~quad.called
    /\ quad.z >= 1
    /\ quad' = [quad EXCEPT !.key = tile_xy_to_quadkey(quad.x, quad.y, quad.z),
                            !.called = TRUE]
    /\ UNCHANGED <<engine, client, plan, rowFiles, jobs, session, tree, clearing>>

QuadkeyNext == QuadkeyCall

QuadkeySpec == QuadkeyInit /\ [][QuadkeyNext]_vars

\* ----------------------------------------- the fetch plan of a mosaic
\* mercantile.tile(lon, lat, zoom): a tile of the pyramid at that zoom
Centers ==
    UNION {{[x |-> x, y |-> y, z |-> z] : x \in TileRange(z), y \in TileRange(z)} :
              z \in 1 .. MaxZoom}

PlanInit ==
    /\ Constructed
    /\ tree = EmptyTree
    /\ clearing = NoClearing
    /\ client = FALSE
    /\ session = NoSession
    /\ jobs = [j \in JobIds |-> NoJob]
    /\ quad = NoQuad
    /\ rowFiles = [p \in RowPaths |-> NoRowFile]
    /\ \E c \in Centers, r \in 0 .. MaxRadius :
           plan = [NoPlan EXCEPT !.center = c, !.radius = r]

\* _stitch_async from `center = mercantile.tile(...)` to `total = len(coords)`
PlanCall ==
    /\ ~plan.built
    /\ plan.center.z >= 1
    /\ plan' = BuildPlan(plan.center, plan.radius)
    /\ UNCHANGED <<engine, client, rowFiles, quad, jobs, session, tree, clearing>>

PlanNext == PlanCall

PlanSpec == PlanInit /\ [][PlanNext]_vars

\* ------------------------------ disk-mode jobs on one cache directory
\* Two getMegaStitchedTiles(mode="disk") calls of different threads or
\* processes whose Imagen objects have the same cache_dir. Each job has
\* gathered its results; every step is one operation on the file system.

\* The outcomes job j gathered for radius r: its own images, and placeholders.
JobResults(j, r) ==
    [i \in 0 .. (Total(r) - 1) |->
        IF i % 3 = 2 THEN Placeholder
        ELSE [kind |-> "tile", tile |-> i, ver |-> j, w |-> TileSize, h |-> TileSize]]

\* `row_img = self._hstack(row_imgs)` of row r of a job
JobStrip(job, r) ==
    Hstack([c \in 1 .. Side(job.radius) |->
               job.results[(r - 1) * Side(job.radius) + (c - 1)]])

\* The file f was written by a job other than j.
Foreign(f, j) == RowExists(f) /\ f.job # j

DiskInit ==
    /\ Constructed
    /\ tree = EmptyTree
    /\ clearing = NoClearing
    /\ client = FALSE
    /\ session = NoSession
    /\ plan = NoPlan
    /\ quad = NoQuad
    /\ rowFiles = [p \in RowPaths |-> NoRowFile]
    /\ \E rad \in [JobIds -> Radii] :
           jobs = [j \in JobIds |->
                      [NoJob EXCEPT !.radius = rad[j], !.results = JobResults(j, rad[j]),
                                    !.pc = "build"]]

\* One pass of "Build rows" in disk mode: the strip is saved under row_path
\* and the path is kept in rows.
SaveRow(j) ==
    LET job == jobs[j]
        r == Len(job.rows) + 1
        path == RowPath(j, r - 1)
    IN  /\ job.pc = "build"
        /\ rowFiles' = [rowFiles EXCEPT ![path] = SavePng(JobStrip(job, r), j)]
        /\ jobs' = [jobs EXCEPT ![j] =
               [job EXCEPT !.rows = Append(@, path),
                           !.foreign = IF Foreign(rowFiles[path], j) THEN @ \cup {"write"} ELSE @,
                           !.pc = IF r = Side(job.radius) THEN "open" ELSE "build"]]
        /\ UNCHANGED <<engine, client, plan, quad, session, tree, clearing>>

\* `Image.open(p).convert("RGB")` of the next path of rows: a path that is
\* not there raises FileNotFoundError; after the last one, _vstack.
OpenRow(j) ==
    LET job == jobs[j]
        k == Len(job.opened) + 1
        f == rowFiles[job.rows[k]]
    IN  /\ job.pc = "open"
        /\ IF ~RowExists(f)
              THEN jobs' = [jobs EXCEPT ![j] =
                       [job EXCEPT !.pc = "raised",
                                   !.outcome = [NoOutcome EXCEPT !.kind = "raise",
                                                                 !.exc = "FileNotFoundError"]]]
              ELSE LET pil_rows == Append(job.opened, OpenPng(f))
                   IN  jobs' = [jobs EXCEPT ![j] =
                           [job EXCEPT !.opened = pil_rows,
                                       !.foreign = IF Foreign(f, j) THEN @ \cup {"read"} ELSE @,
                                       !.outcome = IF k = Len(job.rows) THEN Vstack(pil_rows) ELSE @,
                                       !.pc = IF k = Len(job.rows) THEN "unlink" ELSE "open"]]
        /\ UNCHANGED <<engine, client, plan, quad, rowFiles, session, tree, clearing>>

\* `Path(p).unlink()` of the next path of rows, errors passed over; after
\* the last one the job returns its mosaic.
UnlinkRow(j) ==
    LET job == jobs[j]
        k == job.unlinked + 1
        f == rowFiles[job.rows[k]]
    IN  /\ job.pc = "unlink"
        /\ rowFiles' = [rowFiles EXCEPT ![job.rows[k]] = IF RowExists(f) THEN Unlink(f) ELSE f]
        /\ jobs' = [jobs EXCEPT ![j] =
               [job EXCEPT !.unlinked = k,
                           !.foreign = IF Foreign(f, j) THEN @ \cup {"delete"} ELSE @,
                           !.pc = IF k = Len(job.rows) THEN "returned" ELSE "unlink"]]
        /\ UNCHANGED <<engine, client, plan, quad, session, tree, clearing>>

DiskNext == \E j \in JobIds : SaveRow(j) \/ OpenRow(j) \/ UnlinkRow(j)

DiskSpec == DiskInit /\ [][DiskNext]_vars

\* ------------------------------------------- the client and close()
\* Calls on one Imagen object, one after the other: fetches that reach the
\* client, fetches that end before it, and close().

\* What asyncio.run(self._client.aclose()) can raise: nothing, or a
\* RuntimeError of the event loop (the connections belong to the loop of an
\* earlier asyncio.run, which is closed; or a loop is already running).
AcloseErrors == {"none", "RuntimeError"}

\* Mutant of CaughtByClose: a handler that catches nothing.
CaughtByNothing(exc) == FALSE

\* `except Exception: pass`
CaughtByClose(exc) == exc \in {"RuntimeError", "HTTPError", "OSError"}

\* How close() ends when the body of its try raised exc.
CloseOutcome(exc) == IF exc = "none" \/ CaughtByClose(exc) THEN "returned" ELSE exc

ClientInit ==
    /\ Constructed
    /\ tree = EmptyTree
    /\ clearing = NoClearing
    /\ client = FALSE
    /\ session = NoSession
    /\ plan = NoPlan
    /\ quad = NoQuad
    /\ jobs = [j \in JobIds |-> NoJob]
    /\ rowFiles = [p \in RowPaths |-> NoRowFile]

Count(log, e) == Cardinality({k \in 1 .. Len(log) : log[k] = e})

\* A fetch that reaches `if self._client is None`: the client is created if
\* there is none; a client that was closed refuses the request.
FetchWithClient ==
    /\ Count(session.log, "fetch") + Count(session.log, "hit") < MaxCalls
    /\ client' = TRUE
    /\ session' = [session EXCEPT
                      !.log = Append(@, "fetch"),
                      !.state = IF client THEN @ ELSE "open",
                      !.fetched = IF client /\ session.state = "closed"
                                  THEN "RuntimeError" ELSE "returned"]
    /\ UNCHANGED <<engine, plan, quad, jobs, rowFiles, tree, clearing>>

\* A fetch that ends before the client is looked at: a cache hit, a gibs
\* call, a URL builder that raises.
FetchWithoutClient ==
    /\ Count(session.log, "fetch") + Count(session.log, "hit") < MaxCalls
    /\ session' = [session EXCEPT !.log = Append(@, "hit"), !.fetched = "returned"]
    /\ UNCHANGED <<engine, client, plan, quad, jobs, rowFiles, tree, clearing>>

\* close(): nothing without a client; else asyncio.run(aclose()) in a try.
\* aclose() closes the transport of a client that is not closed yet.
Close ==
    /\ Count(session.log, "close") < MaxCloses
    /\ IF ~client
          THEN session' = [session EXCEPT !.log = Append(@, "close"), !.closed = "returned"]
          ELSE \E exc \in AcloseErrors :
                  session' = [session EXCEPT
                                 !.log = Append(@, "close"),
                                 !.state = "closed",
                                 !.acloses = IF session.state = "open" THEN @ + 1 ELSE @,
                                 !.closed = CloseOutcome(exc)]
    /\ UNCHANGED <<engine, client, plan, quad, jobs, rowFiles, tree, clearing>>

ClientNext == FetchWithClient \/ FetchWithoutClient \/ Close

ClientSpec == ClientInit /\ [][ClientNext]_vars

\* ------------------------------------------------------ clear_cache
\* A path under the cache root is the sequence of its names:
\* <<provider, z, x, y>> is the file root/provider/z/x/y.jpg.
CacheTiles == {<<p, z, x, y>> : p \in {"esri", "bing"}, z \in {1, 2}, x \in {0, 1}, y \in {0, 1}}

\* The directories above a path.
Parents(path) == {SubSeq(path, 1, k) : k \in 1 .. (Len(path) - 1)}

\* Path a lies below directory d.
Below(a, d) == Len(a) > Len(d) /\ SubSeq(a, 1, Len(d)) = d

Entries == tree.dirs \cup tree.files

ClearInit ==
    /\ Constructed
    /\ client = FALSE
    /\ session = NoSession
    /\ plan = NoPlan
    /\ quad = NoQuad
    /\ jobs = [j \in JobIds |-> NoJob]
    /\ rowFiles = [p \in RowPaths |-> NoRowFile]
    /\ tree = EmptyTree
    /\ clearing = NoClearing

\* A successful fetch of tile t: _cache_path makes root/provider/z/x, the
\* response is written to y.jpg.
Populate(t) ==
    /\ clearing.pc = "idle"
    /\ t \notin tree.files
    /\ Cardinality(tree.files) < MaxFiles
    /\ tree' = [dirs |-> tree.dirs \cup Parents(t), files |-> tree.files \cup {t}]
    /\ UNCHANGED <<engine, client, plan, quad, jobs, rowFiles, session, clearing>>

\* clear_cache() is called: `self.cache_dir.glob("*")`
ClearCall ==
    /\ clearing.pc = "idle"
    /\ clearing' = [clearing EXCEPT !.pc = "children",
                                    !.children = {e \in Entries : Len(e) = 1}]
    /\ UNCHANGED <<engine, client, plan, quad, jobs, rowFiles, session, tree>>

\* One step of the two loops. Outer loop: the next child, and for a
\* directory its rglob("*"), which yields a directory before what is in it.
\* Inner loop: p.unlink(), which raises on a directory; after the last p,
\* child.rmdir(), which raises on a directory that is not empty.
ClearStep ==
    /\ clearing.pc \in {"children", "rglob"}
    /\ IF clearing.pc = "children"
          THEN IF clearing.children = {}
               THEN /\ clearing' = [clearing EXCEPT !.pc = "returned"]
                    /\ tree' = tree
               ELSE \E c \in clearing.children :
                       /\ clearing' = [clearing EXCEPT
                              !.children = @ \ {c},
                              !.child = c,
                              !.pc = IF c \in tree.dirs THEN "rglob" ELSE "children",
                              !.pending = IF c \in tree.dirs
                                          THEN {e \in Entries : Below(e, c)} ELSE {}]
                       /\ tree' = tree
          ELSE IF clearing.pending = {}
               THEN IF \E e \in Entries : Below(e, clearing.child)
                    THEN /\ clearing' = [clearing EXCEPT !.pc = "raised", !.exc = "OSError"]
                         /\ tree' = tree
                    ELSE /\ clearing' = [clearing EXCEPT !.pc = "children"]
                         /\ tree' = [tree EXCEPT !.dirs = @ \ {clearing.child}]
               ELSE \E p \in clearing.pending :
                       /\ \A q \in clearing.pending : ~Below(p, q)
                       /\ IF p \in tree.dirs
                             THEN /\ clearing' = [clearing EXCEPT !.pc = "raised",
                                                                  !.exc = "IsADirectoryError"]
                                  /\ tree' = tree
                             ELSE /\ clearing' = [clearing EXCEPT !.pending = @ \ {p}]
                                  /\ tree' = [tree EXCEPT !.files = @ \ {p}]
    /\ UNCHANGED <<engine, client, plan, quad, jobs, rowFiles, session>>

ClearNext == (\E t \in CacheTiles : Populate(t)) \/ ClearCall \/ ClearStep

ClearSpec == ClearInit /\ [][ClearNext]_vars

\* ------------------------------------------------------------ claims
\* Tasks inside `async with sem`: they hold a permit (woken: a release has
\* handed them one) and have not yet left the block.
InLimiter == {i \in Idx : pc[i] \in {"woken", "get", "write", "sleep"}}

\* C1: during _stitch_async with concurrency limit N, the number of worker
\* tasks inside the limiter is at most N in every reachable state; the
\* permits held and the permits free always add up to N.
C1_AtMostNInFlight ==
    pcMain = "gather" =>
        /\ Cardinality(InLimiter) <= concurrency
        /\ sem >= 0
        /\ sem + Cardinality(InLimiter) = concurrency

\* C1 witness: the limiter is full, with two tasks inside and others queued.
C1_Witness ==
    /\ pcMain = "gather"
    /\ concurrency = 2
    /\ Cardinality(InLimiter) = 2
    /\ Len(waiters) >= 2
    /\ \E i \in Idx : pc[i] = "done"

\* C2: grid assembly never begins until every scheduled worker has produced
\* its outcome: when assembly starts (and ever after) every task is done and
\* results holds an outcome for every grid index, also when tasks failed.
C2_AssemblyAfterAllOutcomes ==
    (op = "mosaic" /\ pcMain \in {"assemble", "finalize", "returned"}) =>
        /\ \A i \in Idx : pc[i] = "done" /\ results[i].kind # "none"
        /\ InLimiter = {} /\ waiters = <<>> /\ started = Total(radius)

\* C2 witness: assembly is about to start on a 3x3 grid in which some
\* fetches raised and some returned an image.
C2_Witness ==
    /\ pcMain = "assemble"
    /\ radius = 1
    /\ \E i \in Idx : caught[i] = "RuntimeError"
    /\ \E i \in Idx : caught[i] = "none" /\ results[i].kind = "tile"

\* The answers that make an attempt fail and be retried.
Failures == {"status", "ctype", "transport"}

\* The call is over: it returned or raised.
CallOver == pcMain \in {"returned", "raised"}

\* The tiles whose fetch failed on every one of its attempts.
FailedTiles ==
    {i \in Idx : reqs[i] = MaxAttempts /\ \A a \in 1 .. MaxAttempts : net[i][a] \in Failures}

\* C3: in a returned mosaic of a well-formed request the outcome at index i
\* is the placeholder if and only if the fetch of tile i failed on every
\* attempt (bad status, bad content type, transport error); every other
\* index holds its image.
C3_PlaceholderExactlyAtFailed ==
    (op = "mosaic" /\ pcMain = "returned" /\ ~UrlError) =>
        \A i \in Idx :
            /\ (results[i] = Placeholder) <=> (i \in FailedTiles)
            /\ i \notin FailedTiles => results[i].kind = "tile"

\* The request is malformed: a provider that is none of esri, google, bing,
\* gibs, or google or bing without a key.
ConfigError ==
    \/ provider \notin {"esri", "google", "bing", "gibs"}
    \/ provider \in {"google", "bing"} /\ ~hasKey

\* No tile of the call is served from the cache: the URL builder is reached.
NoCacheHit == \A i \in Idx : force \/ ~Exists(cacheAtCall[i]) \/ ~cacheAtCall[i].valid

\* C5: a configuration error always surfaces to the caller as a hard failure
\* with no image returned, from getMegaStitchedTiles as well as from getTiles
\* (stated for the calls that reach the URL builder).
C5_ConfigErrorSurfaces ==
    (ConfigError /\ CallOver /\ NoCacheHit) =>
        /\ pcMain = "raised"
        /\ outcome.kind = "raise"
        /\ outcome.exc = "ValueError"

\* asyncio.sleep durations after failed attempts 1, 2, 3 (ms)
ExpectedWaits == <<500, 1000, 2000>>

\* C6: for one tile at most four requests are issued; failed attempt k
\* (k = 1, 2, 3) is followed by a wait of 0.5 * 2^(k-1) s whatever the kind
\* of failure; no wait follows the fourth failed attempt; every request but
\* the last answered one failed, so the first success ends the loop.
C6_RetrySchedule ==
    \A i \in Idx :
        /\ reqs[i] \in 0 .. MaxAttempts
        /\ Len(slept[i]) <= MaxAttempts - 1
        /\ slept[i] = SubSeq(ExpectedWaits, 1, Len(slept[i]))
        /\ \A k \in 1 .. Len(slept[i]) : net[i][k] \in Failures
        /\ pc[i] \in {"get", "write"} => Len(slept[i]) = reqs[i] - 1
        /\ pc[i] = "sleep" => Len(slept[i]) = reqs[i]
        /\ pc[i] = "write" => net[i][reqs[i]] \notin Failures
        /\ pc[i] = "done" /\ reqs[i] > 0 =>
              /\ Len(slept[i]) = reqs[i] - 1
              /\ net[i][reqs[i]] \in Failures => reqs[i] = MaxAttempts

\* C6 witness: a fetch gave up after four failed requests of several kinds
\* and three waits.
C6_Witness ==
    \E i \in Idx :
        /\ pc[i] = "done"
        /\ reqs[i] = MaxAttempts
        /\ slept[i] = ExpectedWaits
        /\ net[i][MaxAttempts] \in Failures
        /\ \E a, b \in 1 .. MaxAttempts : net[i][a] = "transport" /\ net[i][b] = "status"

\* C7: a 200 image response whose bytes do not decode is treated like a
\* provider error: a fetch that ended on such a response used all four
\* attempts.
C7_DecodeErrorRetried ==
    \A i \in Idx :
        (pc[i] = "done" /\ reqs[i] >= 1 /\ net[i][reqs[i]] = "junk") =>
            reqs[i] = MaxAttempts
\* What the fetch of tile i gave its caller.
ResultOf(i) == IF op = "mosaic" THEN results[i] ELSE outcome.img

\* The fetch of tile i has run its cache check in the current call.
Entered(i) == pc[i] \in {"get", "sleep", "write", "done"}

\* The cache file of tile i existed and decoded when the call began.
GoodAtCall(i) == Exists(cacheAtCall[i]) /\ cacheAtCall[i].valid

\* The cache file of tile i existed and did not decode when the call began.
CorruptAtCall(i) == Exists(cacheAtCall[i]) /\ ~cacheAtCall[i].valid

\* C8: without force a tile whose cache file exists and decodes is returned
\* from the cache with zero network requests and the stored bytes unchanged;
\* with force the cache check is skipped, a request is issued, and a
\* successful response overwrites the cache file of that key.
C8_CacheHitAndForce ==
    \A i \in Idx :
        (provider # "gibs" /\ Entered(i)) =>
            /\ (~force /\ GoodAtCall(i)) =>
                  /\ pc[i] = "done"
                  /\ reqs[i] = 0
                  /\ cache[i] = cacheAtCall[i]
                  /\ ResultOf(i) = Decode(cacheAtCall[i])
            /\ (force /\ ~UrlError) =>
                  /\ reqs[i] >= 1
                  /\ (pc[i] = "done" /\ net[i][reqs[i]] = "ok") =>
                        /\ cache[i] = RespBytes(i, calls, reqs[i] - 1, "ok")
                        /\ cache[i] # cacheAtCall[i]
                        /\ ResultOf(i) = Decode(cache[i])

\* C8 witness: the second getTiles call, not forced, returned the bytes the
\* first call fetched, with no request.
C8_Witness ==
    /\ op = "single" /\ calls = 2 /\ ~force /\ pcMain = "returned"
    /\ reqs[0] = 0
    /\ cache[0].ver \in 1 .. MaxAttempts
    /\ outcome.img = Decode(cache[0])

\* C9: a cache file that does not decode is detected by the next non-forced
\* read and deleted, and the tile is fetched from the network in that call,
\* once; after that fetch succeeds the cache holds the fresh bytes, and a
\* further non-forced read is a hit with no network request.
C9_CorruptCacheHealed ==
    \A i \in Idx :
        /\ (provider # "gibs" /\ ~force /\ CorruptAtCall(i) /\ Entered(i)) =>
              /\ evicted[i] >= 1
              /\ pc[i] \in {"get", "sleep"} => cache[i] = NoFile
              /\ ~UrlError => reqs[i] >= 1
              /\ UrlError => cache[i] = NoFile /\ reqs[i] = 0
              /\ (pc[i] = "done" /\ reqs[i] >= 1 /\ net[i][reqs[i]] = "ok") =>
                    /\ cache[i] = RespBytes(i, calls, reqs[i] - 1, "ok")
                    /\ cache[i].valid
                    /\ \A a \in 1 .. (reqs[i] - 1) : net[i][a] \in Failures
        /\ (provider # "gibs" /\ ~force /\ evicted[i] >= 1 /\ GoodAtCall(i) /\ Entered(i)) =>
              /\ reqs[i] = 0
              /\ ResultOf(i) = Decode(cacheAtCall[i])
              /\ cache[i] = cacheAtCall[i]

\* C9 witness: the first call found the file corrupt, deleted it and fetched
\* the tile with one request; the second call, not forced, is a hit.
C9_Witness ==
    /\ op = "single" /\ calls = 2 /\ ~force /\ pcMain = "returned"
    /\ evicted[0] = 1
    /\ reqs[0] = 0
    /\ cache[0] = RespBytes(0, 1, 0, "ok")
    /\ outcome.img = Decode(cache[0])

\* C10: a stitched-mosaic request on a gibs Imagen fails at once with the
\* unsupported-operation error: no worker is scheduled, no cache file is
\* read or written, no request is issued, the assembler is never entered.
C10_GibsMosaicRefused ==
    (op = "mosaic" /\ provider = "gibs" /\ calls >= 1) =>
        /\ pcMain = "raised"
        /\ outcome.kind = "raise" /\ outcome.exc = "RuntimeError"
        /\ \A i \in Idx :
              /\ pc[i] = "none"
              /\ reqs[i] = 0
              /\ evicted[i] = 0
              /\ results[i] = NoImage
              /\ caught[i] = "none"
        /\ cache = cacheAtCall
        /\ started = 0 /\ waiters = <<>> /\ sem = 0
        /\ ~client

\* C10 witness: the gibs mosaic call has raised, over a cache with files.
C10_Witness ==
    /\ op = "mosaic" /\ provider = "gibs" /\ pcMain = "raised"
    /\ radius = 1
    /\ \E i \in Idx : Exists(cache[i])
\* A well-formed mosaic request: esri, google or bing with the key it needs.
WellFormedMosaic == op = "mosaic" /\ ~UrlError

\* C4: for a well-formed request whose network requests all complete, fail
\* or time out, getMegaStitchedTiles eventually returns a completed mosaic
\* under fair scheduling: no task waits on the limiter for ever, and the
\* call never ends in an error, whatever tiles fail.
C4_MosaicEventuallyReturned ==
    /\ WellFormedMosaic ~> /\ pcMain = "returned"
                            /\ outcome.kind = "mosaic"
                            /\ Len(outcome.rows) = Side(radius)
                            /\ waiters = <<>>
                            /\ \A i \in Idx : pc[i] = "done"
    /\ [](WellFormedMosaic => pcMain # "raised")

\* C4 witness: a 3x3 mosaic was returned although tasks had to wait for the
\* limiter and some tiles ended as placeholders.
C4_Witness ==
    /\ WellFormedMosaic
    /\ pcMain = "returned" /\ outcome.kind = "mosaic"
    /\ radius = 1
    /\ \E i \in Idx : results[i] = Placeholder
    /\ \E i \in Idx : results[i].kind = "tile"

\* Bit b of n (bit 0 is the least significant).
BitOf(n, b) == (n \div (2 ^ b)) % 2

\* The decimal digit of a value 0 .. 3, as a character.
DigitChar(d) == CASE d = 0 -> "0" [] d = 1 -> "1" [] d = 2 -> "2" [] d = 3 -> "3"

\* C11: for every zoom z >= 1 and x, y in [0, 2^z), tile_xy_to_quadkey(x,
\* y, z) is the reference Bing quadkey: exactly z digits, the k-th digit
\* (k = 1 first) being (bit z-k of x) + 2 * (bit z-k of y); in particular
\* quadkey(0, 0, 1) = "0" and quadkey(1, 1, 1) = "3".
C11_QuadkeyIsReference ==
    (quad.called /\ quad.z >= 1 /\ quad.x \in TileRange(quad.z) /\ quad.y \in TileRange(quad.z)) =>
        /\ Len(quad.key) = quad.z
        /\ \A k \in 1 .. quad.z :
              quad.key[k] = DigitChar(BitOf(quad.x, quad.z - k) + 2 * BitOf(quad.y, quad.z - k))
        /\ (quad.x = 0 /\ quad.y = 0 /\ quad.z = 1) => quad.key = <<"0">>
        /\ (quad.x = 1 /\ quad.y = 1 /\ quad.z = 1) => quad.key = <<"3">>

\* C11 witness: the quadkey of a zoom-3 tile whose digits are all different
\* (x = 5 = 101b, y = 3 = 011b gives "1", "2", "3").
C11_Witness ==
    /\ quad.called
    /\ quad.z = 3 /\ quad.x = 5 /\ quad.y = 3
    /\ quad.key = <<"1", "2", "3">>

\* C18: every tile coordinate (x, y, z) that _stitch_async puts in its fetch
\* plan satisfies 0 <= x < 2^z and 0 <= y < 2^z, for every center tile within
\* range and every radius >= 0, grids at the edge of the pyramid included.
C18_PlanInRange ==
    (plan.built /\ plan.center.x \in TileRange(plan.center.z)
                /\ plan.center.y \in TileRange(plan.center.z)) =>
        \A k \in 1 .. Len(plan.coords) :
            /\ plan.coords[k].x \in TileRange(plan.coords[k].z)
            /\ plan.coords[k].y \in TileRange(plan.coords[k].z)

\* A stitch call has returned its mosaic.
MosaicReturned == op = "mosaic" /\ pcMain = "returned" /\ outcome.kind = "mosaic"

\* C12: for every radius r and every cell (row, col) with 0 <= row, col <
\* 2r+1 the mosaic has, in row `row` from the top and column `col` from the
\* left, the outcome of tile (center.x + col - r, center.y + row - r): rows
\* and columns keep the order of the grid indices idx = row*(2r+1) + col, in
\* memory and in disk mode, in whatever order the fetches ran and completed.
C12_GridOrderKept ==
    MosaicReturned =>
        /\ plan.built /\ plan.radius = radius
        /\ Len(plan.coords) = Total(radius)
        /\ Len(outcome.rows) = 2 * radius + 1
        /\ \A row, col \in 0 .. (2 * radius) :
              LET cell == outcome.rows[row + 1].cells[col + 1]
                  idx == row * (2 * radius + 1) + col
                  tile == [x |-> plan.center.x + col - radius,
                           y |-> plan.center.y + row - radius, z |-> plan.center.z]
              IN  /\ Len(outcome.rows[row + 1].cells) = 2 * radius + 1
                  /\ plan.coords[idx + 1] = tile
                  /\ cell = results[idx]
                  /\ cell.kind = "tile" => plan.coords[cell.tile + 1] = tile
                  /\ cell.kind # "tile" => cell = Placeholder /\ caught[idx] # "none"

\* C12 witness: a 3x3 mosaic assembled in disk mode from tasks that first
\* ran in reverse order, with images and placeholders in it.
C12_Witness ==
    /\ MosaicReturned
    /\ radius = 1 /\ mode = "disk"
    /\ order[1] = Total(radius) - 1
    /\ outcome.rows[1].cells[2].kind = "tile"
    /\ outcome.rows[2].cells[1] = Placeholder
    /\ outcome.rows[1].cells[2] # outcome.rows[2].cells[1]

\* The mosaic memory mode makes of the outcomes res: every row's images
\* side by side, the strips one under the other.
MemoryMosaic(res) ==
    LET side == 2 * radius + 1
        strip(r) == LET imgs == [c \in 1 .. side |-> res[(r - 1) * side + (c - 1)]]
                    IN  [cells |-> imgs, w |-> SumOf(imgs, "w"), h |-> MaxOf(imgs, "h")]
        strips == [r \in 1 .. side |-> strip(r)]
    IN  [NoOutcome EXCEPT !.kind = "mosaic", !.rows = strips,
                          !.w = MaxOf(strips, "w"), !.h = SumOf(strips, "h")]

\* C13: for identical per-index tile outcomes, memory mode and disk mode
\* produce the same mosaic: the same row strips in the same order with the
\* same content and dimensions. Whatever the mode, the mosaic returned is
\* the memory-mode mosaic of the outcomes.
C13_ModesAgree ==
    MosaicReturned =>
        /\ outcome = MemoryMosaic(results)
        /\ outcome.w = (2 * radius + 1) * TileSize
        /\ outcome.h = (2 * radius + 1) * TileSize

\* C13 witness: a 3x3 mosaic returned by disk mode, made of fetched images,
\* cached images and placeholders.
C13_Witness ==
    /\ MosaicReturned
    /\ mode = "disk" /\ radius = 1
    /\ \E i \in Idx : results[i] = Placeholder
    /\ \E i \in Idx : results[i].kind = "tile" /\ results[i].ver > 0
    /\ \E i \in Idx : results[i].kind = "tile" /\ results[i].ver = 0

\* C14: after a disk-mode getMegaStitchedTiles call completes, none of the
\* temporary row files it created (row_0.png .. row_{side-1}.png under the
\* cache directory) remains on disk.
C14_NoRowFileLeft ==
    (op = "mosaic" /\ CallOver) =>
        \A p \in RowPaths : ~RowExists(rowFiles[p])

\* C14 witness: a disk-mode call over a 3x3 grid has returned; rows still
\* names the three files it wrote, and none of them is there.
C14_Witness ==
    /\ MosaicReturned
    /\ mode = "disk" /\ radius = 1
    /\ rows = <<RowPath(calls, 0), RowPath(calls, 1), RowPath(calls, 2)>>
    /\ \A k \in 1 .. 3 : ~RowExists(rowFiles[rows[k]])

\* The mosaic of a job's own outcomes.
OwnMosaic(job) == Vstack([r \in 1 .. Side(job.radius) |-> JobStrip(job, r)])

\* C15: disk-mode temporary row files are uniquely named per job: when two
\* disk-mode stitch jobs that share a cache directory overlap in time, no
\* job ever writes, reads or deletes a temporary row file created by the
\* other job, and each job's mosaic is built only from its own row strips.
C15_RowFilesPrivate ==
    \A j \in JobIds :
        /\ jobs[j].foreign = {}
        /\ jobs[j].pc # "raised"
        /\ jobs[j].pc \in {"unlink", "returned"} => jobs[j].outcome = OwnMosaic(jobs[j])

\* C16: close() never raises at any point of any sequence of fetch and
\* close calls: it is a no-op (creates no client, issues no network
\* activity) when no client was ever created, and it may be called any
\* number of times in a row after a client exists.
C16_CloseNeverRaises ==
    /\ session.closed \in {"none", "returned"}
    /\ Count(session.log, "fetch") = 0 =>
          /\ ~client
          /\ session.state = "none"
          /\ session.acloses = 0
    /\ session.acloses <= Count(session.log, "fetch")

\* C16 witness: close() was called before any client existed, then a fetch
\* created the client, then close() was called twice in a row.
C16_Witness ==
    /\ session.log = <<"close", "fetch", "close", "close">>
    /\ client /\ session.state = "closed"
    /\ session.closed = "returned"
    /\ session.acloses = 1

\* C17: after clear_cache() is called on a cache populated by any sequence
\* of successful fetches (files laid out as root/provider/zoom/x/y.jpg), the
\* call completes without error and no cached tile file remains anywhere
\* under the cache root.
C17_ClearCacheEmpties ==
    clearing.pc \in {"returned", "raised"} =>
        /\ clearing.pc = "returned"
        /\ tree.files = {}
====
